---- MODULE Spec2Model ----
(***************************************************************************)
(* Request/response execution pipeline of ClickUpClient                    *)
(* (src/clickup_sdk/client.py): rate-limit check, HTTP call, response      *)
(* classification and the bounded retry loop of __request, together with   *)
(* the resource operations that delegate to it.                            *)
(*                                                                         *)
(* Time is measured in whole seconds.  One step of the model is one        *)
(* blocking step of the caller: entering an operation, the rate-limit      *)
(* check of one loop iteration, the HTTP call of one iteration, the        *)
(* handling of its response, and the return to the caller.                 *)
(***************************************************************************)
EXTENDS Integers, Sequences, FiniteSets, TLC

\* ------------------------------------------------------------------ bounds
\* number of resource operations one run of the model lets into __request
MaxOps == 2
\* a further operation is started only while request_count is at most this
MaxCallsBeforeNextOp == 1
\* the clock stops advancing on its own at this time (a sleep may go further)
MaxTime == 2
\* the longest run of responses given to LoopObserves
MaxSequenceLen == 12
\* the HTTP calls two concurrent callers make between them
MaxThreadCalls == 3

\* ------------------------------------------------- program constants
max_json_decode_retries == 3
max_rate_limit_retries == 10

\* ------------------------------------------------------ value domains
\* None of Python, for an optional integer
None == -1

Max(a, b) == IF a >= b THEN a ELSE b

\* the loop sized for the decode retries alone
LoopBound_DecodeRetriesOnly == max_json_decode_retries + 1

\* range(max(max_json_decode_retries, max_rate_limit_retries) + 1)
LoopBound == Max(max_json_decode_retries, max_rate_limit_retries) + 1

\* the resource operations modelled that go straight to the request
Ops == {"get_list", "create_folder", "update_folder", "delete_list"}

\* the same with an operation that passes no data and one that uploads files
RequestOps == Ops \cup {"add_task_to_list", "upload_attachment"}

\* the resource operations that check an argument before the request
PriorityOps == {"create_task", "update_task", "update_list"}
CommentOps == {"create_task_comment", "create_threaded_comment"}
OrderByOps == {"get_tasks", "get_team_tasks"}
ValidatedOps == PriorityOps \cup CommentOps \cup OrderByOps

\* the call each operation makes
MethodOf(o) ==
    CASE o \in {"get_list", "get_tasks", "get_team_tasks"} -> "GET"
      [] o \in {"create_folder", "create_task", "create_task_comment",
                "create_threaded_comment", "add_task_to_list",
                "upload_attachment"} -> "POST"
      [] o \in {"update_folder", "update_task", "update_list"} -> "PUT"
      [] o = "delete_list" -> "DELETE"

\* whether the operation passes a non-empty data dictionary;
\* add_task_to_list passes None
DataOf(o) == MethodOf(o) \in {"POST", "PUT"} /\ o # "add_task_to_list"

\* whether the operation passes a non-empty list of files, and the
\* file_upload flag it passes with it
FilesOf(o) == o = "upload_attachment"
FileUploadOf(o) == o = "upload_attachment"

\* the uri the operation builds, its identifiers left symbolic
UriOf(o) ==
    CASE o \in {"get_list", "delete_list", "update_list"} -> "list/{list_id}"
      [] o = "create_folder" -> "space/{space_id}/folder"
      [] o = "update_folder" -> "folder/{folder_id}"
      [] o = "add_task_to_list" -> "list/{list_id}/task/{task_id}"
      [] o = "upload_attachment" -> "task/{task_id}/attachment"
      [] o = "create_task" -> "list/{list_id}/task"
      [] o = "update_task" -> "task/{task_id}"
      [] o = "create_task_comment" -> "task/{task_id}/comment"
      [] o = "create_threaded_comment" -> "comment/{comment_id}/reply"
      [] o = "get_tasks" -> "list/{list_id}/{joined_url}"
      [] o = "get_team_tasks" -> "team/{team_Id}/{joined_url}"

\* None of Python, for an optional string or list
NoneStr == "None"

\* arguments explored: priority, comment_text, comment, order_by
PriorityValues == {None, -2, 0, 1, 4, 5}
CommentTextValues == {NoneStr, "", "text"}
CommentValues == {NoneStr, "blocks"}
OrderByValues == {"id", "created", "updated", "due_date", "name"}

\* constructor arguments explored
StartRemainingValues == {1, 100}
StartResetValues == {2}
BufferValues == {1}

\* what the server can answer
StatusCodes == {200, 404, 429}
\* body: not JSON at all, a JSON object with / without "err", JSON that is
\* not an object (array, string, number, null)
Bodies == {"notjson", "obj_err", "obj_noerr", "nonobj"}
\* x-ratelimit-remaining / x-ratelimit-reset, None when the header is missing
HeaderSets == {<<None, None>>, <<1, 2>>, <<100, 2>>}

Responses ==
    {[status_code |-> s, body |-> b, remaining |-> h[1], reset |-> h[2]] :
        s \in StatusCodes, b \in Bodies, h \in HeaderSets}

NoResponse == [status_code |-> 0, body |-> "none", remaining |-> None, reset |-> None]

\* a missing header read as the constructor's default quota
HeaderGet_DefaultHundred(v) == IF v = None THEN 100 ELSE v

\* response.headers.get(name, 0) followed by int() / float()
HeaderGet(v) == IF v = None THEN 0 ELSE v

\* a 429 taken as rate-limited before its body is decoded
JsonFails_Unless429(r) == r.body = "notjson" /\ r.status_code # 429

\* response.json() raises JSONDecodeError
JsonFails(r) == r.body = "notjson"

\* response.ok of requests
Ok(r) == ~(r.status_code >= 400 /\ r.status_code < 600)

\* Errors and results seen by the caller.  status_code of ClickupClientError
\* holds whatever the second argument was: code is its value when that is an
\* integer (None otherwise), label its value when that is a string (NoneStr
\* otherwise); status_code is None when both are.
NoError == [type |-> "none", message |-> "none", n |-> None, code |-> None,
            label |-> NoneStr, data |-> FALSE]
NoResult == [tag |-> "none", status |-> None, json |-> "none"]
\* a call of __request that has not ended
NoEnd == [err |-> NoError, result |-> NoResult]

ClickupClientError(msg, n, code, hasData) ==
    [type |-> "ClickupClientError", message |-> msg, n |-> n, code |-> code,
     label |-> NoneStr, data |-> hasData]

\* time.sleep(seconds) with seconds < 0
SleepValueError == [type |-> "ValueError", message |-> "sleep length must be non-negative",
                    n |-> None, code |-> None, label |-> NoneStr, data |-> FALSE]

\* response_json.get(...) on a JSON value that is not an object
GetAttributeError == [type |-> "AttributeError", message |-> "no attribute get",
                      n |-> None, code |-> None, label |-> NoneStr, data |-> FALSE]

VARIABLES
    \* client session state
    token, api_url, request_count, rate_limit_remaining, rate_limit_reset,
    rate_limit_buffer_wait_time, retry_rate_limited_requests,
    request_exception_handler, sleep_on_rate_limit_handler,
    \* environment
    now, httpCalls,
    \* the call in progress
    pc, op, method, data, attempt, response, result, err, ret,
    \* the data of the error raised, and the arguments of the latest HTTP call
    \* of the operation
    error_data, sent,
    \* the checked arguments of the resource operation in progress
    priority, comment_text, comment, order_by,
    \* what happened in this operation / iteration
    opsStarted, opCalls, opDecodeFails, op429s, opExcHooks,
    sleepArg, hookArg, excHookArg, checked,
    \* concurrent callers of one client (none when a single caller runs): per
    \* caller its position in __request, its loop index, its local response,
    \* the request_count it read, the time its sleep ends, whether its check
    \* waited and how its call ended; with them the caller whose response last
    \* wrote the tracker, and whether a call was issued over a limit the other
    \* caller's response had set
    callers

client == <<token, api_url, request_count, rate_limit_remaining, rate_limit_reset,
            rate_limit_buffer_wait_time, retry_rate_limited_requests,
            request_exception_handler, sleep_on_rate_limit_handler>>
config == <<token, api_url, rate_limit_buffer_wait_time, retry_rate_limited_requests,
            request_exception_handler, sleep_on_rate_limit_handler>>
tracker == <<rate_limit_remaining, rate_limit_reset>>
frame == <<op, method, data>>
args == <<priority, comment_text, comment, order_by>>
opGhosts == <<opCalls, opDecodeFails, op429s, opExcHooks>>
caller == <<pc, op, method, data, attempt, response, result, err,
            ret, error_data, sent, priority, comment_text, comment, order_by,
            opsStarted, opCalls, opDecodeFails, op429s, opExcHooks,
            sleepArg, hookArg, excHookArg, checked>>
vars == <<token, api_url, request_count, rate_limit_remaining, rate_limit_reset,
          rate_limit_buffer_wait_time, retry_rate_limited_requests,
          request_exception_handler, sleep_on_rate_limit_handler,
          now, httpCalls, pc, op, method, data, attempt,
          response, result, err, ret, error_data, sent,
          priority, comment_text, comment, order_by,
          opsStarted, opCalls, opDecodeFails, op429s, opExcHooks,
          sleepArg, hookArg, excHookArg, checked,
          callers>>

\* the callers that share one client
Threads == {1, 2}

\* a caller that has not called yet
CallerInit ==
    [pc |-> "idle", attempt |-> 0, response |-> NoResponse, loaded |-> None,
     wake |-> None, waited |-> FALSE, end |-> NoEnd]

\* ClickUpClient.__init__, and no call made yet
InitClient ==
    /\ token = "test_token"
    /\ api_url = "https://api.clickup.com/api/v2/"
    /\ request_count = 0
    /\ rate_limit_remaining \in StartRemainingValues
    /\ rate_limit_reset \in StartResetValues
    /\ rate_limit_buffer_wait_time \in BufferValues
    /\ retry_rate_limited_requests \in BOOLEAN
    /\ request_exception_handler \in BOOLEAN
    /\ sleep_on_rate_limit_handler \in BOOLEAN
    /\ now = 0
    /\ httpCalls = 0
    /\ pc = "idle"
    /\ op = "none"
    /\ method = "none"
    /\ data = FALSE
    /\ error_data = <<>>
    /\ sent = <<>>
    /\ attempt = 0
    /\ response = NoResponse
    /\ result = NoResult
    /\ err = NoError
    /\ ret = "none"
    /\ priority = None
    /\ comment_text = NoneStr
    /\ comment = NoneStr
    /\ order_by = "created"
    /\ opsStarted = 0
    /\ opCalls = 0
    /\ opDecodeFails = 0
    /\ op429s = 0
    /\ opExcHooks = 0
    /\ sleepArg = <<>>
    /\ hookArg = <<>>
    /\ excHookArg = <<>>
    /\ checked = FALSE

\* one caller at a time
Init ==
    /\ InitClient
    /\ callers = <<>>

\* two callers on the one client
InitThreads ==
    /\ InitClient
    /\ callers = [of |-> [t \in Threads |-> CallerInit], lastWriter |-> 0, raced |-> FALSE]

\* The clock advances.  Only the rate-limit check reads it, so every advance
\* between two checks is taken while the request is in flight.
Tick ==
    /\ UNCHANGED callers
    /\ pc = "send"
    /\ now < MaxTime
    /\ now' = now + 1
    /\ UNCHANGED <<client, httpCalls, pc, frame, args, attempt, response, result, err, ret,
                   error_data, sent, opsStarted, opGhosts, sleepArg, hookArg, excHookArg,
                   checked>>

\* a resource operation builds its uri and data and enters __request
StartOp(o) ==
    /\ UNCHANGED callers
    /\ pc = "idle"
    /\ opsStarted < MaxOps
    /\ request_count <= MaxCallsBeforeNextOp
    /\ op' = o
    /\ method' = MethodOf(o)
    /\ data' = DataOf(o)
    /\ error_data' = <<>>
    /\ sent' = <<>>
    /\ attempt' = 0
    /\ pc' = "check"
    /\ result' = NoResult
    /\ err' = NoError
    /\ ret' = "none"
    /\ opsStarted' = opsStarted + 1
    /\ opCalls' = 0
    /\ opDecodeFails' = 0
    /\ op429s' = 0
    /\ opExcHooks' = 0
    /\ sleepArg' = <<>>
    /\ hookArg' = <<>>
    /\ excHookArg' = <<>>
    /\ checked' = FALSE
    /\ priority' = None
    /\ comment_text' = NoneStr
    /\ comment' = NoneStr
    /\ order_by' = "created"
    /\ UNCHANGED <<client, now, httpCalls, response>>

\* ------------------------------------- the checks on the arguments
\* a Python value used as a condition: None and 0 are false
Truthy(v) == v # None /\ v # 0

\* if priority and priority not in range(1, 5)
PriorityRejected(p) == Truthy(p) /\ p \notin 1..4

\* the check made on comment_text alone, against a comment that is given
CommentRejected_OnlyWithComment(t, c) == t = NoneStr /\ c # NoneStr

\* if comment_text is None and comment is None
CommentRejected(t, c) == t = NoneStr /\ c = NoneStr

\* if order_by not in ["id", "created", "updated", "due_date"]
OrderByRejected(o) == o \notin {"id", "created", "updated", "due_date"}

\* the check the operation makes on its arguments
Rejected(o, p, t, c, ob) ==
    \/ o \in PriorityOps /\ PriorityRejected(p)
    \/ o \in CommentOps /\ CommentRejected(t, c)
    \/ o \in OrderByOps /\ OrderByRejected(ob)

\* ClickupClientError(error_message, s) with a string s as second positional
\* argument, which is status_code
LabelledClientError(msg, s) ==
    [type |-> "ClickupClientError", message |-> msg, n |-> None, code |-> None,
     label |-> s, data |-> FALSE]

\* the error raised with status_code left out
ValidationError_NoLabel(o) ==
    CASE o \in PriorityOps -> ClickupClientError("Priority must be in range of 1-4.", None, None, FALSE)
      [] o \in CommentOps ->
            ClickupClientError("Either comment_text or comment must be supplied.", None, None, FALSE)
      [] o \in OrderByOps ->
            ClickupClientError("Options are: id, created, updated, due_date", None, None, FALSE)

\* raise exceptions.ClickupClientError(message, label)
ValidationError(o) ==
    CASE o \in PriorityOps ->
            LabelledClientError("Priority must be in range of 1-4.", "Priority out of range")
      [] o \in CommentOps ->
            LabelledClientError("Either comment_text or comment must be supplied.",
                                "No comment supplied")
      [] o \in OrderByOps ->
            LabelledClientError("Options are: id, created, updated, due_date",
                                "Invalid order_by value")

\* a resource operation that checks an argument is called
CallOp(o) ==
    /\ UNCHANGED callers
    /\ pc = "idle"
    /\ opsStarted < MaxOps
    /\ request_count <= MaxCallsBeforeNextOp
    /\ op' = o
    /\ priority' \in (IF o \in PriorityOps THEN PriorityValues ELSE {None})
    /\ comment_text' \in (IF o \in CommentOps THEN CommentTextValues ELSE {NoneStr})
    /\ comment' \in (IF o \in CommentOps THEN CommentValues ELSE {NoneStr})
    /\ order_by' \in (IF o \in OrderByOps THEN OrderByValues ELSE {"created"})
    /\ method' = "none"
    /\ data' = FALSE
    /\ error_data' = <<>>
    /\ sent' = <<>>
    /\ attempt' = 0
    /\ pc' = "validate"
    /\ result' = NoResult
    /\ err' = NoError
    /\ ret' = "none"
    /\ UNCHANGED opsStarted
    /\ opCalls' = 0
    /\ opDecodeFails' = 0
    /\ op429s' = 0
    /\ opExcHooks' = 0
    /\ sleepArg' = <<>>
    /\ hookArg' = <<>>
    /\ excHookArg' = <<>>
    /\ checked' = FALSE
    /\ UNCHANGED <<client, now, httpCalls, response>>

\* The operation checks its arguments and raises, or builds its uri and data
\* and enters __request.  The arguments are read no more once the request is
\* built.  opsStarted counts the operations that entered __request.
Validate ==
    /\ UNCHANGED callers
    /\ pc = "validate"
    /\ IF Rejected(op, priority, comment_text, comment, order_by)
       THEN /\ pc' = "raised"
            /\ err' = ValidationError(op)
            /\ UNCHANGED <<method, data, args, opsStarted>>
       ELSE /\ pc' = "check"
            /\ method' = MethodOf(op)
            /\ data' = DataOf(op)
            /\ priority' = None
            /\ comment_text' = NoneStr
            /\ comment' = NoneStr
            /\ order_by' = "created"
            /\ opsStarted' = opsStarted + 1
            /\ UNCHANGED err
    /\ UNCHANGED <<client, now, httpCalls, op, attempt, response,
                   result, ret, error_data, sent, opGhosts, sleepArg, hookArg, excHookArg,
                   checked>>

\* ---------------------------------------------- __check_rate_limit
\* the wait taken only once the quota is used up
RateLimitReached_AtZero(remaining) == remaining < 1

\* if self.rate_limit_remaining <= 1
RateLimitReached(remaining) == remaining <= 1

\* (fromtimestamp(reset + buffer) - datetime.now()).total_seconds()
SecondsToWait(reset, buffer, t) == reset + buffer - t

\* time.sleep raises ValueError for a negative argument
SleepRaises(seconds) == seconds < 0

\* the handler called only ahead of a wait that takes time
InvokesSleepHandler_OnlyPositive(handler, seconds) == handler /\ seconds > 0

\* if self.sleep_on_rate_limit_handler is not None:
\*     self.sleep_on_rate_limit_handler(seconds, self)
InvokesSleepHandler(handler, seconds) == handler

\* a check that takes the quota as renewed once it has waited
CheckRateLimit_RenewsQuota ==
    /\ UNCHANGED callers
    /\ pc = "check"
    /\ checked' = TRUE
    /\ excHookArg' = <<>>
    /\ IF RateLimitReached(rate_limit_remaining)
       THEN LET seconds == SecondsToWait(rate_limit_reset, rate_limit_buffer_wait_time, now)
            IN  /\ hookArg' = IF InvokesSleepHandler(sleep_on_rate_limit_handler, seconds)
                               THEN <<seconds>> ELSE <<>>
                /\ sleepArg' = <<seconds>>
                /\ IF SleepRaises(seconds)
                   THEN /\ pc' = "raised"
                        /\ err' = SleepValueError
                        /\ UNCHANGED <<now, rate_limit_remaining>>
                   ELSE /\ pc' = "send"
                        /\ now' = now + seconds
                        /\ rate_limit_remaining' = 100
                        /\ UNCHANGED err
       ELSE /\ pc' = "send"
            /\ UNCHANGED <<now, err, hookArg, sleepArg, rate_limit_remaining>>
    /\ UNCHANGED <<config, request_count, rate_limit_reset, httpCalls, frame, args, attempt,
                   response, result, ret, error_data, sent, opsStarted, opCalls,
                   opDecodeFails, op429s, opExcHooks>>

\* self.__check_rate_limit() at the top of a loop iteration
CheckRateLimit ==
    /\ UNCHANGED callers
    /\ pc = "check"
    /\ checked' = TRUE
    /\ excHookArg' = <<>>
    /\ IF RateLimitReached(rate_limit_remaining)
       THEN LET seconds == SecondsToWait(rate_limit_reset, rate_limit_buffer_wait_time, now)
            IN  /\ hookArg' = IF InvokesSleepHandler(sleep_on_rate_limit_handler, seconds)
                               THEN <<seconds>> ELSE <<>>
                /\ sleepArg' = <<seconds>>
                /\ IF SleepRaises(seconds)
                   THEN /\ pc' = "raised"
                        /\ err' = SleepValueError
                        /\ UNCHANGED now
                   ELSE /\ pc' = "send"
                        /\ now' = now + seconds
                        /\ UNCHANGED err
       ELSE /\ pc' = "send"
            /\ UNCHANGED <<now, err, hookArg, sleepArg>>
    /\ UNCHANGED <<client, httpCalls, frame, args, attempt, response, result, ret,
                   error_data, sent, opsStarted, opCalls, opDecodeFails, op429s, opExcHooks>>

\* ------------------------------------------------------ the HTTP call
\* the counter left as it was
NextRequestCount_NoIncrement(c) == c

\* self.request_count += 1
NextRequestCount(c) == c + 1

\* the JSON content type sent with a file upload too
Headers_AlwaysJson(tok, fu) == [Authorization |-> tok, Content_Type |-> "application/json"]

\* __headers(file_upload)
Headers(tok, fu) ==
    IF fu
    THEN [Authorization |-> tok]
    ELSE [Authorization |-> tok, Content_Type |-> "application/json"]

\* file_upload if upload_files else False
FileUploadMode(fu, files) == IF files THEN fu ELSE FALSE

\* the body left off a PUT
AttachesJson_PostOnly(m, d) == m = "POST" /\ d

\* if method in ["POST", "PUT"] and data: request_kwargs["json"] = data
AttachesJson(m, d) == m \in {"POST", "PUT"} /\ d

\* if method == "POST" and upload_files: request_kwargs["files"] = upload_files
AttachesFiles(m, files) == m = "POST" /\ files

\* path = formatting.url_join(self.api_url, uri), computed once before the
\* loop and kept as the pair it is made of
Path(base, uri) == <<base, uri>>

\* what is handed to requests: the function named by the method, the path
\* and request_kwargs (json and files: whether the key is set, to data and
\* to upload_files)
RequestSent(m, path, d, files, fu, tok) ==
    [method |-> m, path |-> path,
     headers |-> Headers(tok, FileUploadMode(fu, files)),
     json |-> AttachesJson(m, d),
     files |-> AttachesFiles(m, files)]

\* response = getattr(requests, method.lower())(path, **request_kwargs)
\* self.request_count += 1
SendRequest ==
    /\ UNCHANGED callers
    /\ pc = "send"
    /\ \E r \in Responses : response' = r
    /\ sent' = <<RequestSent(method, Path(api_url, UriOf(op)), data, FilesOf(op),
                             FileUploadOf(op), token)>>
    /\ httpCalls' = httpCalls + 1
    /\ opCalls' = opCalls + 1
    /\ request_count' = NextRequestCount(request_count)
    /\ pc' = "handle"
    /\ UNCHANGED <<config, tracker, now, frame, args, attempt, result, err, ret, error_data,
                   opsStarted, opDecodeFails, op429s, opExcHooks, sleepArg, hookArg,
                   excHookArg, checked>>

\* ------------------------------------------- handling of the response
\* one more decode failure retried
DecodeRetriesExhausted_OffByOne(a) == a > max_json_decode_retries

\* if attempt >= max_json_decode_retries
DecodeRetriesExhausted(a) == a >= max_json_decode_retries

\* one more 429 retried
RateLimitRetriesExhausted_OffByOne(a) == a > max_rate_limit_retries

\* if attempt >= max_rate_limit_retries
RateLimitRetriesExhausted(a) == a >= max_rate_limit_retries

\* if response.status_code == 429
IsRateLimited(r) == r.status_code = 429

\* if response.status_code >= 400
IsHardError(r) == r.status_code >= 400

\* the remaining quota read from the wrong header
ParsedRemaining_FromReset(r) == HeaderGet(r.reset)

\* __parse_response_rate_limit_headers
ParsedRemaining(r) == HeaderGet(r.remaining)
ParsedReset(r) == HeaderGet(r.reset)

\* error = response_json.get("err", json.dumps(response_json))
ErrorMessage(r) == IF r.body = "obj_err" THEN "err_field" ELSE "json_dumps"

\* the parsed body returned whatever the method
SuccessResult_AlwaysJson(m, r) == [tag |-> "json", status |-> None, json |-> r.body]

\* the value returned for a successful response
SuccessResult(m, r) ==
    IF m = "DELETE"
    THEN [tag |-> "status", status |-> r.status_code, json |-> "none"]
    ELSE [tag |-> "json", status |-> None, json |-> r.body]

\* the value of the bare "return None" after the loop
NoneResult == [tag |-> "None", status |-> None, json |-> "none"]

\* the error raised without the status of the response
DecodeRetryError_NoStatus(r) ==
    ClickupClientError("Failed to decode JSON response after retries",
                       max_json_decode_retries, None, FALSE)

\* exceptions.ClickupClientError(
\*     f"Failed to decode JSON response after {max_json_decode_retries} retries",
\*     response.status_code)
DecodeRetryError(r) ==
    ClickupClientError("Failed to decode JSON response after retries",
                       max_json_decode_retries, r.status_code, FALSE)

\* error_data = {'response': response.text, 'headers': dict(response.headers),
\*               'uri': uri}; if data: error_data['data'] = data
\* (data: whether the key is set, to the data of the request)
ErrorData(r, uri, d) ==
    [response |-> r.body, headers |-> <<r.remaining, r.reset>>, uri |-> uri, data |-> d]

\* raise ... with no data argument
Raise(e) ==
    /\ pc' = "raised"
    /\ err' = e
    /\ error_data' = <<>>
    /\ UNCHANGED <<attempt, result, sleepArg, hookArg, checked>>

\* raise exceptions.ClickupClientError(..., data=error_data)
RaiseWithData(e, d) ==
    /\ pc' = "raised"
    /\ err' = e
    /\ error_data' = <<d>>
    /\ UNCHANGED <<attempt, result, sleepArg, hookArg, checked>>

\* return ...
ReturnValue(v) ==
    /\ pc' = "returned"
    /\ result' = v
    /\ UNCHANGED <<attempt, err, error_data, sleepArg, hookArg, checked>>

\* a retry that does not advance the attempt index
Continue_SameAttempt ==
    /\ UNCHANGED <<err, error_data, attempt, result>>
    /\ pc' = "check"
    /\ sleepArg' = <<>>
    /\ hookArg' = <<>>
    /\ checked' = FALSE

\* a retry that goes straight to the request
Continue_NoRecheck ==
    /\ UNCHANGED <<err, error_data>>
    /\ IF attempt + 1 < LoopBound
       THEN /\ attempt' = attempt + 1
            /\ pc' = "send"
            /\ sleepArg' = <<>>
            /\ hookArg' = <<>>
            /\ checked' = FALSE
            /\ UNCHANGED result
       ELSE /\ pc' = "returned"
            /\ result' = NoneResult
            /\ UNCHANGED <<attempt, sleepArg, hookArg, checked>>

\* continue: the next value of range(...), or the end of the loop
Continue ==
    /\ UNCHANGED <<err, error_data>>
    /\ IF attempt + 1 < LoopBound
       THEN /\ attempt' = attempt + 1
            /\ pc' = "check"
            /\ sleepArg' = <<>>
            /\ hookArg' = <<>>
            /\ checked' = FALSE
            /\ UNCHANGED result
       ELSE /\ pc' = "returned"
            /\ result' = NoneResult
            /\ UNCHANGED <<attempt, sleepArg, hookArg, checked>>

\* the flag ignored: every 429 is retried
RetryRateLimited_Always(flag) == TRUE

\* if self.retry_rate_limited_requests
RetryRateLimited(flag) == flag

\* the handler called only for the failure that raises
InvokesExceptionHandler_OnlyWhenRaising(handler, a) == handler /\ DecodeRetriesExhausted(a)

\* if self.request_exception_handler: self.request_exception_handler(e, response, self)
InvokesExceptionHandler(handler, a) == handler

\* The body of the loop after the request was made.  The local variable
\* response is dead once the iteration ends: it is read nowhere before the
\* next request overwrites it.  opDecodeFails and op429s count what the
\* server sent in this operation, whatever the client makes of it.
HandleResponse ==
    /\ UNCHANGED callers
    /\ pc = "handle"
    /\ opDecodeFails' = opDecodeFails + (IF JsonFails(response) THEN 1 ELSE 0)
    /\ op429s' = op429s + (IF ~JsonFails(response) /\ response.status_code = 429 THEN 1 ELSE 0)
    /\ IF JsonFails(response)
       THEN /\ opExcHooks' = opExcHooks + (IF InvokesExceptionHandler(request_exception_handler, attempt)
                                           THEN 1 ELSE 0)
            /\ excHookArg' = IF InvokesExceptionHandler(request_exception_handler, attempt)
                             THEN <<response>> ELSE <<>>
            /\ UNCHANGED tracker
            /\ IF DecodeRetriesExhausted(attempt)
               THEN Raise(DecodeRetryError(response))
               ELSE Continue
       ELSE /\ rate_limit_remaining' = ParsedRemaining(response)
            /\ rate_limit_reset' = ParsedReset(response)
            /\ UNCHANGED <<opExcHooks, excHookArg>>
            /\ IF IsRateLimited(response)
               THEN IF RetryRateLimited(retry_rate_limited_requests)
                    THEN IF RateLimitRetriesExhausted(attempt)
                         THEN Raise(ClickupClientError("Rate limit retry exceeded after attempts",
                                                       max_rate_limit_retries, response.status_code, FALSE))
                         ELSE Continue
                    ELSE RaiseWithData(ClickupClientError("Rate limit exceeded", None,
                                                          response.status_code, TRUE),
                                       ErrorData(response, UriOf(op), data))
               ELSE IF IsHardError(response)
                    THEN IF response.body = "nonobj"
                         THEN Raise(GetAttributeError)
                         ELSE RaiseWithData(ClickupClientError(ErrorMessage(response), None,
                                                               response.status_code, TRUE),
                                            ErrorData(response, UriOf(op), data))
                    ELSE IF Ok(response)
                         THEN ReturnValue(SuccessResult(method, response))
                         ELSE Continue
    /\ response' = NoResponse
    /\ UNCHANGED <<config, request_count, now, httpCalls, frame, args, ret, sent, opsStarted,
                   opCalls>>

\* ------------------------------------- the loop over a given run of responses
\* an undecodable response and a decodable 429, as the server sends them
Undecodable == [status_code |-> 200, body |-> "notjson", remaining |-> 100, reset |-> 2]
RateLimited429 == [status_code |-> 429, body |-> "obj_err", remaining |-> 100, reset |-> 2]

\* runs of responses of both kinds, up to MaxSequenceLen long
ResponseSequences == UNION {[1..n -> {Undecodable, RateLimited429}] : n \in 0..MaxSequenceLen}

RECURSIVE LoopObserves(_, _, _, _, _)
\* What one call of __request sees of the run of responses rs, no wait
\* raising: the loop from attempt a on, d undecodable bodies and r 429
\* responses seen so far; rs[a + 1] answers the request of attempt a.
LoopObserves(rs, flag, a, d, r) ==
    IF a >= LoopBound \/ a >= Len(rs)
    THEN [decodeFails |-> d, rateLimited |-> r]
    ELSE IF JsonFails(rs[a + 1])
         THEN IF DecodeRetriesExhausted(a)
              THEN [decodeFails |-> d + 1, rateLimited |-> r]
              ELSE LoopObserves(rs, flag, a + 1, d + 1, r)
         ELSE IF IsRateLimited(rs[a + 1])
              THEN IF RetryRateLimited(flag) /\ ~RateLimitRetriesExhausted(a)
                   THEN LoopObserves(rs, flag, a + 1, d, r + 1)
                   ELSE [decodeFails |-> d, rateLimited |-> r + 1]
              ELSE [decodeFails |-> d, rateLimited |-> r]

\* ------------------------------------------- back in the resource operation
\* what the resource operation hands to its caller once __request returned
OpReturn(o, v) ==
    IF o \in {"delete_list", "add_task_to_list"} THEN "True"
    ELSE IF o = "get_list" THEN "model"
    ELSE IF v.tag = "None" THEN "None" ELSE "model"

\* the resource operation returns, or the exception propagates to its caller
Return ==
    /\ UNCHANGED callers
    /\ pc \in {"returned", "raised"}
    /\ pc' = "idle"
    /\ ret' = IF pc = "returned" THEN OpReturn(op, result) ELSE "raised"
    /\ UNCHANGED <<client, now, httpCalls, frame, args, attempt, response, result, err,
                   error_data, sent, opsStarted, opGhosts, sleepArg, hookArg, excHookArg,
                   checked>>

\* ================================== two callers sharing one client
\* Each caller runs one get_list on the same client.  A step is what one
\* caller does without the other running in between: the statement
\* self.request_count += 1 reads the field and writes it back in two steps.
ThreadResponses ==
    {r \in Responses : /\ r.status_code \in {200, 429}
                       /\ r.body \in {"notjson", "obj_noerr"}
                       /\ r.remaining # None}

\* the clock advances while a caller runs or sleeps
TTick ==
    /\ \/ now < MaxTime
       \/ \E t \in Threads : callers.of[t].pc = "sleep" /\ now < callers.of[t].wake
    /\ now' = now + 1
    /\ UNCHANGED <<client, httpCalls, caller, callers>>

\* a caller calls get_list, which enters __request
TStart(t) ==
    /\ callers.of[t].pc = "idle"
    /\ callers' = [callers EXCEPT !.of[t].pc = "check"]
    /\ UNCHANGED <<client, now, httpCalls, caller>>

\* raise ...
TRaise(c, e) == [c EXCEPT !.pc = "raised", !.end = [err |-> e, result |-> NoResult]]

\* return ...
TReturn(c, v) == [c EXCEPT !.pc = "returned", !.end = [err |-> NoError, result |-> v]]

\* continue
TContinue(c) ==
    IF c.attempt + 1 < LoopBound
    THEN [c EXCEPT !.attempt = c.attempt + 1, !.pc = "check"]
    ELSE TReturn(c, NoneResult)

\* self.__check_rate_limit(), up to the call of sleep
TCheck(t) ==
    /\ callers.of[t].pc = "check"
    /\ LET c == callers.of[t]
           seconds == SecondsToWait(rate_limit_reset, rate_limit_buffer_wait_time, now)
       IN  callers' = [callers EXCEPT !.of[t] =
                IF RateLimitReached(rate_limit_remaining)
                THEN IF SleepRaises(seconds)
                     THEN TRaise(c, SleepValueError)
                     ELSE [c EXCEPT !.pc = "sleep", !.wake = now + seconds, !.waited = TRUE]
                ELSE [c EXCEPT !.pc = "send", !.waited = FALSE]]
    /\ UNCHANGED <<client, now, httpCalls, caller>>

\* sleep(seconds) returns
TWake(t) ==
    /\ callers.of[t].pc = "sleep"
    /\ now >= callers.of[t].wake
    /\ callers' = [callers EXCEPT !.of[t].pc = "send", !.of[t].wake = None]
    /\ UNCHANGED <<client, now, httpCalls, caller>>

\* caller t is about to issue a call it did not wait for, over a limit the
\* other caller's response has set
Races(t) ==
    /\ rate_limit_remaining <= 1
    /\ ~callers.of[t].waited
    /\ callers.lastWriter \in Threads \ {t}

\* response = getattr(requests, method.lower())(path, **request_kwargs)
TSend(t) ==
    /\ callers.of[t].pc = "send"
    /\ httpCalls < MaxThreadCalls
    /\ \E r \in ThreadResponses :
            callers' = [callers EXCEPT !.of[t].response = r, !.of[t].pc = "load",
                                     !.raced = @ \/ Races(t)]
    /\ httpCalls' = httpCalls + 1
    /\ UNCHANGED <<client, now, caller>>

\* a caller that reads the counter only while no other caller holds a value
\* it has read and not yet written back
TLoad_UnderLock(t) ==
    /\ callers.of[t].pc = "load"
    /\ \A u \in Threads \ {t} : callers.of[u].pc # "store"
    /\ callers' = [callers EXCEPT !.of[t].loaded = request_count, !.of[t].pc = "store"]
    /\ UNCHANGED <<client, now, httpCalls, caller>>

\* self.request_count += 1: the field is read
TLoad(t) ==
    /\ callers.of[t].pc = "load"
    /\ callers' = [callers EXCEPT !.of[t].loaded = request_count, !.of[t].pc = "store"]
    /\ UNCHANGED <<client, now, httpCalls, caller>>

\* self.request_count += 1: the sum is written back
TStore(t) ==
    /\ callers.of[t].pc = "store"
    /\ request_count' = NextRequestCount(callers.of[t].loaded)
    /\ callers' = [callers EXCEPT !.of[t].loaded = None, !.of[t].pc = "handle"]
    /\ UNCHANGED <<config, tracker, now, httpCalls, caller>>

\* how the body of the loop after the request leaves the caller
THandled(c, flag) ==
    LET r == c.response
        a == c.attempt
    IN  IF JsonFails(r)
        THEN IF DecodeRetriesExhausted(a)
             THEN TRaise(c, DecodeRetryError(r))
             ELSE TContinue(c)
        ELSE IF IsRateLimited(r)
             THEN IF RetryRateLimited(flag)
                  THEN IF RateLimitRetriesExhausted(a)
                       THEN TRaise(c, ClickupClientError(
                                        "Rate limit retry exceeded after attempts",
                                        max_rate_limit_retries, r.status_code, FALSE))
                       ELSE TContinue(c)
                  ELSE TRaise(c, ClickupClientError("Rate limit exceeded", None,
                                                    r.status_code, TRUE))
             ELSE IF IsHardError(r)
                  THEN IF r.body = "nonobj"
                       THEN TRaise(c, GetAttributeError)
                       ELSE TRaise(c, ClickupClientError(ErrorMessage(r), None,
                                                         r.status_code, TRUE))
                  ELSE IF Ok(r)
                       THEN TReturn(c, SuccessResult("GET", r))
                       ELSE TContinue(c)

\* the body of the loop after the request was counted
THandle(t) ==
    /\ callers.of[t].pc = "handle"
    /\ IF JsonFails(callers.of[t].response)
       THEN UNCHANGED tracker
       ELSE /\ rate_limit_remaining' = ParsedRemaining(callers.of[t].response)
            /\ rate_limit_reset' = ParsedReset(callers.of[t].response)
    /\ callers' = [callers EXCEPT
            !.of[t] = [THandled(callers.of[t], retry_rate_limited_requests)
                         EXCEPT !.response = NoResponse],
            !.lastWriter = IF JsonFails(callers.of[t].response) THEN @ ELSE t]
    /\ UNCHANGED <<config, request_count, now, httpCalls, caller>>

\* ======================================================== the claims
Done == pc \in {"returned", "raised"}

RateLimitExceededError == ClickupClientError("Rate limit exceeded", None, 429, TRUE)
RateLimitRetryError ==
    ClickupClientError("Rate limit retry exceeded after attempts", max_rate_limit_retries, 429, FALSE)
DecodeRetryErrors ==
    {ClickupClientError("Failed to decode JSON response after retries",
                        max_json_decode_retries, c, FALSE) : c \in StatusCodes}

C2_Retry429ElevenCalls ==
    (retry_rate_limited_requests /\ Done /\ opCalls > 0 /\ op429s = opCalls) =>
        /\ opCalls = max_rate_limit_retries + 1
        /\ pc = "raised"
        /\ err = RateLimitRetryError

\* C2, apart from a rate-limit check that raises: an operation on a retrying
\* client that ended otherwise having received nothing but decodable 429
\* responses made 11 HTTP calls and raised the retry-exhausted error.
C2_UnlessCheckRaises ==
    (retry_rate_limited_requests /\ Done /\ opCalls > 0 /\ op429s = opCalls
        /\ err # SleepValueError) =>
        /\ opCalls = max_rate_limit_retries + 1
        /\ pc = "raised"
        /\ err = RateLimitRetryError

\* C3: an operation that ended having received nothing but undecodable
\* bodies made exactly 4 HTTP calls, invoked the configured request-exception
\* hook 4 times and raised the decode-failure ClickupClientError.
C3_DecodeFailureFourCalls ==
    (Done /\ opCalls > 0 /\ opDecodeFails = opCalls) =>
        /\ opCalls = max_json_decode_retries + 1
        /\ pc = "raised"
        /\ err \in DecodeRetryErrors
        /\ (request_exception_handler => opExcHooks = max_json_decode_retries + 1)

\* C3, apart from a rate-limit check that raises.
C3_UnlessCheckRaises ==
    (Done /\ opCalls > 0 /\ opDecodeFails = opCalls /\ err # SleepValueError) =>
        /\ opCalls = max_json_decode_retries + 1
        /\ pc = "raised"
        /\ err \in DecodeRetryErrors
        /\ (request_exception_handler => opExcHooks = max_json_decode_retries + 1)

\* C4: handling a decodable response with status >= 400 other than 429
\* raises ClickupClientError carrying that status, at whatever attempt and
\* whatever the retry flag, and issues no further HTTP call.
C4_HardErrorRaisesClientError ==
    [][(/\ pc = "handle"
        /\ ~JsonFails(response)
        /\ response.status_code >= 400
        /\ response.status_code # 429)
       => (/\ pc' = "raised"
           /\ err'.type = "ClickupClientError"
           /\ err'.code = response.status_code
           /\ httpCalls' = httpCalls)]_vars

\* C4, for a body that decodes to a JSON object.
C4_ForJsonObjects ==
    [][(/\ pc = "handle"
        /\ response.body \in {"obj_err", "obj_noerr"}
        /\ response.status_code >= 400
        /\ response.status_code # 429)
       => (/\ pc' = "raised"
           /\ err'.type = "ClickupClientError"
           /\ err'.code = response.status_code
           /\ httpCalls' = httpCalls)]_vars

\* C5: the rate-limit check of an attempt that finds rate_limit_remaining <= 1
\* suspends for rate_limit_reset + rate_limit_buffer_wait_time - now seconds
\* and goes on to the HTTP call; with rate_limit_remaining > 1 it goes on to
\* the HTTP call without suspending.
C5_CheckWaitsThenSends ==
    [][pc = "check" =>
        IF rate_limit_remaining <= 1
        THEN /\ sleepArg' = <<rate_limit_reset + rate_limit_buffer_wait_time - now>>
             /\ pc' = "send"
        ELSE /\ sleepArg' = <<>>
             /\ pc' = "send"
             /\ now' = now]_vars

\* C5, for a wait that is not negative: the check suspends until
\* rate_limit_reset + rate_limit_buffer_wait_time and goes on to the call.
C5_ForNonNegativeWaits ==
    [][(pc = "check" /\ rate_limit_reset + rate_limit_buffer_wait_time - now >= 0) =>
        IF rate_limit_remaining <= 1
        THEN /\ sleepArg' = <<rate_limit_reset + rate_limit_buffer_wait_time - now>>
             /\ now' = rate_limit_reset + rate_limit_buffer_wait_time
             /\ pc' = "send"
        ELSE /\ sleepArg' = <<>>
             /\ pc' = "send"
             /\ now' = now]_vars

\* C6: the rate-limit check that finds rate_limit_remaining <= 1 and a wait of
\* zero or less completes without error and without delay, and the attempt
\* goes on to its HTTP call.
C6_NonPositiveWaitIsNoOp ==
    [][(/\ pc = "check"
        /\ rate_limit_remaining <= 1
        /\ rate_limit_reset + rate_limit_buffer_wait_time - now <= 0)
       => (/\ pc' = "send"
           /\ err' = NoError
           /\ now' = now)]_vars

\* C7: handling a decodable response with status < 400 returns the integer
\* status code when the method is DELETE and the parsed JSON body for GET,
\* POST and PUT; the delete operation then returns True to its caller.
C7_SuccessResult ==
    [][/\ (pc = "handle" /\ ~JsonFails(response) /\ response.status_code < 400)
          => (/\ pc' = "returned"
              /\ result' = IF method = "DELETE"
                           THEN [tag |-> "status", status |-> response.status_code, json |-> "none"]
                           ELSE [tag |-> "json", status |-> None, json |-> response.body])
       /\ (pc = "returned" /\ MethodOf(op) = "DELETE" /\ pc' = "idle")
          => ret' = "True"]_vars

C7_Witness ==
    /\ pc = "idle"
    /\ op = "delete_list"
    /\ ret = "True"
    /\ result = [tag |-> "status", status |-> 200, json |-> "none"]

\* C8: request_count equals the number of physical HTTP calls the client has
\* issued since construction, retried attempts included.
C8_RequestCountIsHttpCalls == request_count = httpCalls

C8_Witness ==
    /\ pc = "idle"
    /\ opsStarted = 2
    /\ opCalls >= 2
    /\ request_count = 3

\* C9 as stated: handling any response, an undecodable one included, leaves
\* rate_limit_remaining and rate_limit_reset equal to that response's headers.
C9_TrackerFollowsEveryResponse ==
    [][pc = "handle" =>
        /\ rate_limit_remaining' = (IF response.remaining = None THEN 0 ELSE response.remaining)
        /\ rate_limit_reset' = (IF response.reset = None THEN 0 ELSE response.reset)]_vars

\* C9 amended: handling a response whose body decodes as JSON (429, hard error
\* or success) leaves rate_limit_remaining and rate_limit_reset equal to that
\* response's headers, 0 for a missing header; handling an undecodable response
\* leaves both unchanged; and no other step changes them, so a rate-limit check
\* observes the headers of the most recent decodable response.
C9_TrackerFollowsDecodableResponses ==
    [][/\ (pc = "handle" /\ ~JsonFails(response)) =>
            /\ rate_limit_remaining' = (IF response.remaining = None THEN 0 ELSE response.remaining)
            /\ rate_limit_reset' = (IF response.reset = None THEN 0 ELSE response.reset)
       /\ (pc = "handle" /\ JsonFails(response)) => UNCHANGED tracker
       /\ pc # "handle" => UNCHANGED tracker]_vars

C9_Witness ==
    /\ pc = "check"
    /\ attempt > 0
    /\ op429s > 0
    /\ opDecodeFails > 0
    /\ rate_limit_remaining = 0
    /\ rate_limit_reset = 0

\* C10: a call into the pipeline that has ended has either returned a result
\* or raised ClickupClientError; no other error type reaches the caller.
C10_OnlyClientErrorEscapes ==
    /\ pc = "raised" => (err.type = "ClickupClientError" /\ result = NoResult)
    /\ pc = "returned" => (err = NoError /\ result # NoResult)


\* C11: create_task, update_task or update_list called with an integer
\* priority outside 1..4 raises ClickupClientError from its argument check:
\* no HTTP call is made and request_count stays as it was.
C11_PriorityOutsideRangeRaises ==
    [][(pc = "validate" /\ op \in {"create_task", "update_task", "update_list"}
        /\ priority # None /\ ~(priority >= 1 /\ priority <= 4))
       => (/\ pc' = "raised"
           /\ err'.type = "ClickupClientError"
           /\ err'.message = "Priority must be in range of 1-4."
           /\ httpCalls' = httpCalls
           /\ request_count' = request_count)]_vars

\* C11, for a priority other than 0.
C11_ForNonZeroPriorities ==
    [][(pc = "validate" /\ op \in {"create_task", "update_task", "update_list"}
        /\ priority # None /\ priority # 0 /\ ~(priority >= 1 /\ priority <= 4))
       => (/\ pc' = "raised"
           /\ err'.type = "ClickupClientError"
           /\ err'.message = "Priority must be in range of 1-4."
           /\ httpCalls' = httpCalls
           /\ request_count' = request_count)]_vars

\* C12 as stated: an error raised by an operation's argument check is a
\* ClickupClientError whose status_code is None.
C12_ValidationErrorHasNoStatusCode ==
    [][(pc = "validate" /\ pc' = "raised")
       => (/\ err'.type = "ClickupClientError"
           /\ err'.code = None
           /\ err'.label = NoneStr)]_vars

\* C12 amended: an error raised by an operation's argument check is a
\* ClickupClientError without data whose status_code is no number but a
\* string naming the failed check: "Priority out of range", "No comment
\* supplied" or "Invalid order_by value".
C12_ValidationErrorCarriesLabel ==
    [][(pc = "validate" /\ pc' = "raised")
       => (/\ err'.type = "ClickupClientError"
           /\ err'.code = None
           /\ err'.data = FALSE
           /\ err'.label =
                (IF op \in {"create_task", "update_task", "update_list"}
                 THEN "Priority out of range"
                 ELSE IF op \in {"create_task_comment", "create_threaded_comment"}
                      THEN "No comment supplied"
                      ELSE "Invalid order_by value"))]_vars

C12_Witness ==
    /\ pc = "raised"
    /\ op = "update_list"
    /\ priority = 5
    /\ err.label = "Priority out of range"
    /\ err.code = None

\* C13: create_task_comment or create_threaded_comment called with neither
\* comment_text nor comment, and get_tasks or get_team_tasks called with an
\* order_by other than id, created, updated, due_date, raise ClickupClientError
\* with no HTTP call, no rate-limit wait and no hook invocation, and leave
\* request_count, rate_limit_remaining, rate_limit_reset and the rest of the
\* client as they were.
C13_RejectedCallLeavesClientUntouched ==
    [][(/\ pc = "validate"
        /\ \/ /\ op \in {"create_task_comment", "create_threaded_comment"}
              /\ comment_text = NoneStr
              /\ comment = NoneStr
           \/ /\ op \in {"get_tasks", "get_team_tasks"}
              /\ order_by \notin {"id", "created", "updated", "due_date"})
       => (/\ pc' = "raised"
           /\ err'.type = "ClickupClientError"
           /\ httpCalls' = httpCalls
           /\ opCalls' = 0
           /\ now' = now
           /\ sleepArg' = <<>>
           /\ hookArg' = <<>>
           /\ opExcHooks' = 0
           /\ excHookArg' = <<>>
           /\ request_count' = request_count
           /\ rate_limit_remaining' = rate_limit_remaining
           /\ rate_limit_reset' = rate_limit_reset
           /\ UNCHANGED client)]_vars

C13_Witness ==
    /\ pc = "raised"
    /\ op = "get_team_tasks"
    /\ order_by = "name"
    /\ request_count = 1
    /\ rate_limit_remaining = 0
    /\ opCalls = 0
    /\ httpCalls = 1
    /\ err.type = "ClickupClientError"


\* C14: on a client constructed with start_rate_limit_remaining = 1 and a
\* sleep hook, the operation that makes the client's first HTTP call has
\* invoked the hook exactly once before that call is issued, and does not
\* invoke it again when the response to that call succeeds with
\* x-ratelimit-remaining > 1: the operation returns with one invocation made.
C14_OneHookCallBeforeFirstRequest ==
    [][/\ (/\ pc = "send"
           /\ httpCalls = 0
           /\ rate_limit_remaining = 1
           /\ sleep_on_rate_limit_handler)
          => (/\ Len(hookArg) = 1
              /\ opCalls = 0
              /\ hookArg' = hookArg)
       /\ (/\ pc = "handle"
           /\ httpCalls = 1
           /\ rate_limit_remaining = 1
           /\ sleep_on_rate_limit_handler
           /\ response.body # "notjson"
           /\ response.status_code < 400
           /\ response.remaining # None
           /\ response.remaining > 1)
          => (/\ Len(hookArg) = 1
              /\ pc' = "returned"
              /\ hookArg' = hookArg
              /\ opCalls' = 1
              /\ httpCalls' = 1)
       /\ (pc = "returned" /\ httpCalls = 1) => hookArg' = hookArg]_vars

C14_Witness ==
    /\ pc = "returned"
    /\ sleep_on_rate_limit_handler
    /\ httpCalls = 1
    /\ opCalls = 1
    /\ hookArg = <<3>>
    /\ rate_limit_remaining = 100
    /\ now = 3

C16_HookCallPerSleep ==
    [][/\ (sleep_on_rate_limit_handler' => hookArg' = sleepArg')
       /\ (pc = "check" /\ sleep_on_rate_limit_handler) =>
            IF rate_limit_remaining > 1
            THEN hookArg' = <<>> /\ sleepArg' = <<>> /\ now' = now
            ELSE /\ sleepArg' = <<rate_limit_reset + rate_limit_buffer_wait_time - now>>
                 /\ hookArg' = sleepArg'
       /\ (pc # "check" /\ pc' # "check" /\ pc' # "validate") => hookArg' = hookArg]_vars

C16_Witness ==
    /\ pc = "send"
    /\ sleep_on_rate_limit_handler
    /\ attempt > 0
    /\ hookArg = <<2>>
    /\ sleepArg = <<2>>
    /\ now = 3

\* the position of an operation in its loop: three steps to an attempt
C17_Rank ==
    IF pc = "check" THEN 3 * attempt
    ELSE IF pc = "send" THEN 3 * attempt + 1
    ELSE IF pc = "handle" THEN 3 * attempt + 2
    ELSE 3 * (max_rate_limit_retries + 1)

\* C17: whatever the server answers, an operation ends, by a return or a
\* raise, after at most max(3, 10) + 1 = 11 HTTP calls: while it runs, a step
\* is always possible, every step of it moves it forward in a loop of at most
\* 11 attempts, an attempt making one HTTP call.
C17_EndsWithinElevenCalls ==
    /\ [](/\ opCalls <= 11
          /\ attempt < 11
          /\ (pc \in {"check", "send", "handle"} =>
                ENABLED (CheckRateLimit \/ SendRequest \/ HandleResponse)))
    /\ [][/\ (pc \in {"check", "send", "handle"}) =>
                \/ C17_Rank' > C17_Rank
                \/ (pc' = pc /\ now' > now /\ attempt' = attempt /\ opCalls' = opCalls)
          /\ (pc = "send" /\ pc' # pc) => opCalls' = attempt + 1]_vars

C17_Witness ==
    /\ pc = "raised"
    /\ opCalls = 11
    /\ attempt = 10
    /\ op429s = 11


\* C18: the two budgets are separate counters: on a retrying client an
\* undecodable response is retried whenever fewer than 3 undecodable
\* responses came before it in the operation, however many 429s did, and a 429
\* is retried whenever fewer than 10 429s came before it, however many
\* undecodable responses did.
C18_BudgetsAreIndependent ==
    [][/\ (/\ pc = "handle"
           /\ retry_rate_limited_requests
           /\ response.body = "notjson"
           /\ opDecodeFails < 3)
          => (pc' = "check" /\ attempt' = attempt + 1)
       /\ (/\ pc = "handle"
           /\ retry_rate_limited_requests
           /\ response.body # "notjson"
           /\ response.status_code = 429
           /\ op429s < 10)
          => (pc' = "check" /\ attempt' = attempt + 1)]_vars

\* C19: the decision is made on the attempt index of the shared loop, the
\* number of HTTP calls the operation completed before the current one: an
\* undecodable response raises the decode-failure error iff the index is >= 3
\* and otherwise goes on to the next attempt; a 429 on a retrying client
\* raises the retry-exceeded error iff the index is >= 10 and otherwise goes
\* on to the next attempt.
C19_DecisionOnAttemptIndex ==
    [][/\ pc = "handle" => attempt = opCalls - 1
       /\ (pc = "handle" /\ response.body = "notjson") =>
            IF opCalls - 1 >= 3
            THEN /\ pc' = "raised"
                 /\ err' = [type |-> "ClickupClientError",
                            message |-> "Failed to decode JSON response after retries",
                            n |-> 3, code |-> response.status_code,
                            label |-> NoneStr, data |-> FALSE]
            ELSE /\ pc' = "check"
                 /\ attempt' = attempt + 1
                 /\ err' = NoError
       /\ (/\ pc = "handle"
           /\ response.body # "notjson"
           /\ response.status_code = 429
           /\ retry_rate_limited_requests) =>
            IF opCalls - 1 >= 10
            THEN /\ pc' = "raised"
                 /\ err' = [type |-> "ClickupClientError",
                            message |-> "Rate limit retry exceeded after attempts",
                            n |-> 10, code |-> 429,
                            label |-> NoneStr, data |-> FALSE]
            ELSE /\ pc' = "check"
                 /\ attempt' = attempt + 1
                 /\ err' = NoError]_vars

C19_Witness ==
    /\ pc = "raised"
    /\ err \in DecodeRetryErrors
    /\ opDecodeFails = 1
    /\ op429s = 3
    /\ opCalls = 4

\* C20 as stated: for a client that retries rate-limited requests, some run
\* of responses mixing undecodable bodies and 429s makes one operation see
\* more than 4 undecodable bodies or more than 11 429 responses before its
\* loop ends.
C20_SomeSequenceExceedsABudget ==
    retry_rate_limited_requests =>
        \E rs \in ResponseSequences :
            /\ \E i \in 1..Len(rs) : rs[i].body = "notjson"
            /\ \E i \in 1..Len(rs) : rs[i].status_code = 429 /\ rs[i].body # "notjson"
            /\ \/ LoopObserves(rs, retry_rate_limited_requests, 0, 0, 0).decodeFails > 4
               \/ LoopObserves(rs, retry_rate_limited_requests, 0, 0, 0).rateLimited > 11

\* C20 amended: no run of responses does: an operation sees at most 4
\* undecodable bodies and at most 11 429 responses, 11 responses in all, and
\* one that saw an undecodable body sees at most 10 429s: mixing the kinds
\* ends the loop no later.
C20_NoBudgetIsExceeded ==
    /\ opDecodeFails <= 4
    /\ op429s <= 11
    /\ opDecodeFails + op429s <= opCalls
    /\ opCalls <= 11
    /\ opDecodeFails > 0 => op429s <= 10

C20_Witness ==
    /\ pc = "raised"
    /\ opDecodeFails = 1
    /\ op429s = 10
    /\ opCalls = 11
    /\ err = RateLimitRetryError

\* C21: every HTTP call, the first of an operation or a retry, is issued
\* after the rate-limit check of its own loop iteration: a retry after an
\* undecodable body or a 429 goes back to the check, and a call issued while
\* rate_limit_remaining <= 1 follows a wait of
\* rate_limit_reset + rate_limit_buffer_wait_time - now >= 0 seconds made in
\* that iteration.
C21_CheckBeforeEveryCall ==
    [][/\ (pc = "send" /\ pc' = "handle") =>
            /\ checked
            /\ httpCalls' = httpCalls + 1
            /\ rate_limit_remaining <= 1 => Len(sleepArg) = 1 /\ sleepArg[1] >= 0
       /\ (pc = "handle" /\ pc' \notin {"raised", "returned"}) =>
            /\ pc' = "check"
            /\ attempt' = attempt + 1
            /\ ~checked'
            /\ sleepArg' = <<>>
       /\ pc' = "send" =>
            \/ pc = "send"
            \/ /\ pc = "check"
               /\ checked'
               /\ rate_limit_remaining <= 1 =>
                    /\ sleepArg' = <<rate_limit_reset + rate_limit_buffer_wait_time - now>>
                    /\ now' = rate_limit_reset + rate_limit_buffer_wait_time
                    /\ now' >= now]_vars

C21_Witness ==
    /\ pc = "handle"
    /\ attempt = 2
    /\ opDecodeFails = 1
    /\ op429s = 1
    /\ rate_limit_remaining = 0
    /\ checked
    /\ sleepArg = <<1>>


\* C22: a response is classified in a fixed order.  One whose body is not
\* JSON is a decode failure whatever its status code and whatever the retry
\* flag, a 429 on a client that does not retry and a status >= 400 included:
\* it leaves the tracker alone and is retried or, from attempt index 3 on,
\* raises the decode-failure error.  Only a response whose body decodes is
\* rate-limited (429), else a hard error (>= 400, the operation raises
\* neither a decode-failure nor a rate-limit error), else a success (returns).
C22_ClassificationOrder ==
    [][pc = "handle" =>
        IF response.body = "notjson"
        THEN /\ UNCHANGED <<rate_limit_remaining, rate_limit_reset>>
             /\ IF attempt >= 3
                THEN pc' = "raised" /\ err' \in DecodeRetryErrors
                        /\ err'.code = response.status_code
                ELSE pc' = "check" /\ attempt' = attempt + 1 /\ err' = NoError
        ELSE IF response.status_code = 429
             THEN IF retry_rate_limited_requests
                  THEN \/ pc' = "check" /\ err' = NoError
                       \/ pc' = "raised" /\ err' = RateLimitRetryError
                  ELSE pc' = "raised" /\ err' = RateLimitExceededError
             ELSE IF response.status_code >= 400
                  THEN /\ pc' = "raised"
                       /\ err' \notin DecodeRetryErrors
                       /\ err' \notin {RateLimitRetryError, RateLimitExceededError}
                       /\ err'.message \notin {"Failed to decode JSON response after retries",
                                                "Rate limit exceeded",
                                                "Rate limit retry exceeded after attempts"}
                  ELSE pc' = "returned" /\ err' = NoError]_vars

C22_Witness ==
    /\ pc = "raised"
    /\ ~retry_rate_limited_requests
    /\ opDecodeFails = 4
    /\ op429s = 0
    /\ opCalls = 4
    /\ err = ClickupClientError("Failed to decode JSON response after retries",
                                max_json_decode_retries, 429, FALSE)


\* C23: handling a response whose body decodes overwrites the tracker
\* whatever it held and whatever the status: rate_limit_remaining becomes the
\* value of x-ratelimit-remaining and rate_limit_reset that of
\* x-ratelimit-reset, each 0 when the header is missing; a 429 that raises and
\* a hard error that raises leave the tracker overwritten in the same way.
C23_DecodableResponseOverwritesTracker ==
    [][(pc = "handle" /\ response.body # "notjson") =>
        /\ rate_limit_remaining' = (IF response.remaining = None THEN 0 ELSE response.remaining)
        /\ rate_limit_reset' = (IF response.reset = None THEN 0 ELSE response.reset)
        /\ (response.status_code = 429 /\ ~retry_rate_limited_requests) => pc' = "raised"
        /\ (response.status_code = 429 /\ retry_rate_limited_requests /\ attempt >= 10)
                => pc' = "raised"
        /\ (response.status_code >= 400 /\ response.status_code # 429) => pc' = "raised"
        /\ pc' = "raised" => (rate_limit_remaining' \in {0, response.remaining}
                              /\ rate_limit_reset' \in {0, response.reset})]_vars

C23_Witness ==
    /\ pc = "raised"
    /\ err.type = "ClickupClientError"
    /\ err.code = 404
    /\ opCalls = 1
    /\ httpCalls = 1
    /\ rate_limit_remaining = 0
    /\ rate_limit_reset = 0


\* C24: the error raised for a decodable response with status >= 400 other
\* than 429 is a ClickupClientError whose message is the err field of the
\* JSON when it has one and the serialized JSON otherwise; it and the "Rate
\* limit exceeded" error of a client that does not retry carry as data the
\* response text, the response headers and the uri, and the data of the
\* request exactly when the operation passed non-empty data; the two
\* retry-exhausted errors carry no data.
C24_ErrorMessageAndData ==
    [][/\ (/\ pc = "handle"
           /\ response.body # "notjson"
           /\ response.status_code >= 400
           /\ response.status_code # 429)
          => (/\ pc' = "raised"
              /\ err'.type = "ClickupClientError"
              /\ err'.message = (IF response.body = "obj_err" THEN "err_field" ELSE "json_dumps")
              /\ err'.data
              /\ error_data' = <<[response |-> response.body,
                                  headers |-> <<response.remaining, response.reset>>,
                                  uri |-> UriOf(op),
                                  data |-> data]>>)
       /\ (/\ pc = "handle"
           /\ response.body # "notjson"
           /\ response.status_code = 429
           /\ ~retry_rate_limited_requests)
          => (/\ pc' = "raised"
              /\ err' = RateLimitExceededError
              /\ error_data' = <<[response |-> response.body,
                                  headers |-> <<response.remaining, response.reset>>,
                                  uri |-> UriOf(op),
                                  data |-> data]>>)
       /\ (pc = "handle" /\ pc' = "raised"
           /\ (response.body = "notjson"
               \/ (response.status_code = 429 /\ retry_rate_limited_requests)))
          => (~err'.data /\ error_data' = <<>>)]_vars

\* C24, for a hard error whose body decodes to a JSON object.
C24_ForJsonObjects ==
    [][/\ (/\ pc = "handle"
           /\ response.body \in {"obj_err", "obj_noerr"}
           /\ response.status_code >= 400
           /\ response.status_code # 429)
          => (/\ pc' = "raised"
              /\ err'.type = "ClickupClientError"
              /\ err'.message = (IF response.body = "obj_err" THEN "err_field" ELSE "json_dumps")
              /\ err'.data
              /\ error_data' = <<[response |-> response.body,
                                  headers |-> <<response.remaining, response.reset>>,
                                  uri |-> UriOf(op),
                                  data |-> data]>>)
       /\ (/\ pc = "handle"
           /\ response.body # "notjson"
           /\ response.status_code = 429
           /\ ~retry_rate_limited_requests)
          => (/\ pc' = "raised"
              /\ err' = RateLimitExceededError
              /\ error_data' = <<[response |-> response.body,
                                  headers |-> <<response.remaining, response.reset>>,
                                  uri |-> UriOf(op),
                                  data |-> data]>>)
       /\ (pc = "handle" /\ pc' = "raised"
           /\ (response.body = "notjson"
               \/ (response.status_code = 429 /\ retry_rate_limited_requests)))
          => (~err'.data /\ error_data' = <<>>)]_vars


\* C25: an operation that fails because its decode retries are used up
\* raises, in the handling of the undecodable response, a ClickupClientError
\* whose status_code is the status code of that response, the last one
\* received, and whose message names the retry count 3; it carries no data.
C25_DecodeErrorCarriesLastStatus ==
    [][/\ (pc = "handle" /\ response.body = "notjson" /\ attempt >= 3) =>
            /\ pc' = "raised"
            /\ err'.type = "ClickupClientError"
            /\ err'.message = "Failed to decode JSON response after retries"
            /\ err'.n = 3
            /\ err'.code = response.status_code
            /\ err'.label = NoneStr
            /\ ~err'.data
            /\ error_data' = <<>>
            /\ httpCalls' = httpCalls
       /\ (pc' = "raised" /\ err'.message = "Failed to decode JSON response after retries") =>
            \/ (pc = "handle" /\ response.body = "notjson")
            \/ (pc = "raised" /\ err' = err)]_vars

C25_Witness ==
    /\ pc = "raised"
    /\ opDecodeFails = 2
    /\ op429s = 2
    /\ opCalls = 4
    /\ err.message = "Failed to decode JSON response after retries"
    /\ err.n = 3
    /\ err.code = 404


C27_BodyAndFilesByMethod ==
    [][(pc = "send" /\ pc' = "handle") =>
        /\ Len(sent') = 1
        /\ sent'[1].method = method
        /\ method = MethodOf(op)
        /\ sent'[1].path = <<api_url, UriOf(op)>>
        /\ sent'[1].json <=> (method \in {"POST", "PUT"} /\ data)
        /\ sent'[1].files <=> (method = "POST" /\ op = "upload_attachment")
        /\ method \in {"GET", "DELETE"} => (~sent'[1].json /\ ~sent'[1].files)
        /\ opCalls = 0 => sent = <<>>
        /\ opCalls > 0 => sent' = sent]_vars

C27_Witness ==
    /\ pc = "handle"
    /\ op = "upload_attachment"
    /\ attempt = 2
    /\ opCalls = 3
    /\ Len(sent) = 1
    /\ sent[1].method = "POST"
    /\ sent[1].json
    /\ sent[1].files
    /\ sent[1].path = <<api_url, "task/{task_id}/attachment">>


\* C28: every HTTP call carries the header Authorization set to the token of
\* the client; it carries Content-Type: application/json when the operation
\* did not set the file_upload flag, and no Content-Type header of the
\* client's when it did; no other header is set by the client.
C28_HeadersByUploadMode ==
    [][(pc = "send" /\ pc' = "handle") =>
        /\ "Authorization" \in DOMAIN sent'[1].headers
        /\ sent'[1].headers.Authorization = token
        /\ IF op = "upload_attachment"
           THEN DOMAIN sent'[1].headers = {"Authorization"}
           ELSE /\ DOMAIN sent'[1].headers = {"Authorization", "Content_Type"}
                /\ sent'[1].headers.Content_Type = "application/json"]_vars

C28_Witness ==
    /\ pc = "handle"
    /\ op = "upload_attachment"
    /\ opCalls = 1
    /\ Len(sent) = 1
    /\ DOMAIN sent[1].headers = {"Authorization"}
    /\ sent[1].headers.Authorization = "test_token"


\* C29: no step changes token, api_url, rate_limit_buffer_wait_time,
\* retry_rate_limited_requests or either hook; the argument check of an
\* operation and the rate-limit check, its hook call and its wait included,
\* change no field of the client; request_count changes only with an HTTP
\* call, by one, and rate_limit_remaining and rate_limit_reset change only in
\* the handling of the response to an HTTP call.
C29_ClientChangesOnlyAfterRequest ==
    [][/\ token' = token
       /\ api_url' = api_url
       /\ rate_limit_buffer_wait_time' = rate_limit_buffer_wait_time
       /\ retry_rate_limited_requests' = retry_rate_limited_requests
       /\ request_exception_handler' = request_exception_handler
       /\ sleep_on_rate_limit_handler' = sleep_on_rate_limit_handler
       /\ pc \in {"check", "validate", "idle", "returned", "raised"} =>
            /\ request_count' = request_count
            /\ rate_limit_remaining' = rate_limit_remaining
            /\ rate_limit_reset' = rate_limit_reset
       /\ request_count' # request_count =>
            /\ pc = "send"
            /\ pc' = "handle"
            /\ httpCalls' = httpCalls + 1
            /\ request_count' = request_count + 1
       /\ (rate_limit_remaining' # rate_limit_remaining \/ rate_limit_reset' # rate_limit_reset) =>
            /\ pc = "handle"
            /\ opCalls > 0
            /\ request_count' = request_count]_vars

C29_Witness ==
    /\ pc = "send"
    /\ attempt = 1
    /\ request_count = 1
    /\ rate_limit_remaining = 1
    /\ rate_limit_reset = 2
    /\ sleep_on_rate_limit_handler
    /\ hookArg = <<3>>
    /\ sleepArg = <<3>>
    /\ now = 3
    /\ token = "test_token"


\* C30: nothing keeps two callers of one client apart.  Whatever the other
\* caller is doing, a caller that is about to check the rate limit, to issue
\* its HTTP call, to read request_count, to write it back or to handle its
\* response can take that step; request_count never exceeds the number of
\* HTTP calls issued.  So there are interleavings in which both callers have
\* ended, request_count is lower than the number of HTTP calls issued, and a
\* caller issued an HTTP call without waiting although the other caller's
\* latest response had set rate_limit_remaining <= 1.
C30_NothingKeepsCallersApart ==
    /\ request_count <= httpCalls
    /\ \A t \in Threads :
        /\ callers.of[t].pc = "check" => ENABLED TCheck(t)
        /\ (callers.of[t].pc = "send" /\ httpCalls < MaxThreadCalls) => ENABLED TSend(t)
        /\ callers.of[t].pc = "load" => ENABLED TLoad(t)
        /\ callers.of[t].pc = "store" => ENABLED TStore(t)
        /\ callers.of[t].pc = "handle" => ENABLED THandle(t)

C30_Witness ==
    /\ \A t \in Threads : callers.of[t].pc \in {"returned", "raised"}
    /\ httpCalls = 3
    /\ request_count < httpCalls
    /\ callers.raced



Next ==
    \/ Tick
    \/ \E o \in Ops : StartOp(o)
    \/ \E o \in ValidatedOps : CallOp(o)
    \/ Validate
    \/ CheckRateLimit
    \/ SendRequest
    \/ HandleResponse
    \/ Return

Spec == Init /\ [][Next]_vars

\* the operations that go straight to the request, file upload included
NextRequests ==
    \/ Tick
    \/ \E o \in RequestOps : StartOp(o)
    \/ CheckRateLimit
    \/ SendRequest
    \/ HandleResponse
    \/ Return

SpecRequests == Init /\ [][NextRequests]_vars

NextThreads ==
    \/ TTick
    \/ \E t \in Threads : TStart(t)
    \/ \E t \in Threads : TCheck(t)
    \/ \E t \in Threads : TWake(t)
    \/ \E t \in Threads : TSend(t)
    \/ \E t \in Threads : TLoad(t)
    \/ \E t \in Threads : TStore(t)
    \/ \E t \in Threads : THandle(t)

SpecThreads == InitThreads /\ [][NextThreads]_vars
====
